---- MODULE Spec2Model ----
(***************************************************************************)
(* go-share: a peer-to-peer file sharing system.                           *)
(*                                                                         *)
(*   internal/file    CreateManifest, GetChunk, WriteChunk, VerifyChunk    *)
(*   internal/peer    StartFileServer / handleConnection (serving side),   *)
(*                    DownloadChunk / DownloadFile (requesting side)       *)
(*   internal/tracker Tracker.Announce / Tracker.GetPeers (peer registry)  *)
(*                                                                         *)
(* The specifications of this module:                                      *)
(*   SpecChunker     CreateManifest, GetChunk, VerifyChunk applied to      *)
(*                   inputs                                                *)
(*   SpecWriter      WriteChunk applied to a file handle                   *)
(*   SpecTransfer    the chunk transfer between a requester and a peer     *)
(*   SpecServer      the file server and any clients                       *)
(*   SpecServerFair  the file server under fair scheduling                 *)
(*   SpecTracker     concurrent HTTP handlers over the registry            *)
(*   SpecTrackerFair the same handlers under fair scheduling               *)
(*   SpecSnapshot    the handlers over a registry that holds three peers   *)
(*                                                                         *)
(* A file is a sequence of bytes.  Go indexes are 0-based, TLA+ sequences  *)
(* 1-based: Go's chunks[i] is chunks[i + 1] here.                          *)
(***************************************************************************)
EXTENDS Integers, Sequences, FiniteSets, TLC

VARIABLES
    \* ---- SpecChunker: one call of each function of internal/file
    cmFile,       \* bytes of the file at filePath
    cmChunkSize,  \* the chunkSize argument of CreateManifest
    cmResult,     \* what CreateManifest returned
    gcCall,       \* the GetChunk call: chunk index and result
    vcCall,       \* the VerifyChunk call: chunk index, data and result
    \* ---- SpecWriter: one call of WriteChunk
    wcFile,       \* bytes of the file the handle is open on
    wcHandle,     \* the *os.File: its offset, and whether it has O_APPEND
    wcCall,       \* the WriteChunk call: arguments, file before, error
    \* ---- SpecTransfer: a requester, and the peer it talks to
    env,          \* "server": the peer runs StartFileServer, nothing fails
                  \* "arbitrary": any peer, and dial/send/write may fail
    clients,      \* which of DownloadFile / DownloadChunk get called
    listening,    \* whether StartFileServer's accept loop is running
    acceptFailed, \* whether an ln.Accept() of the loop has returned an error
    srvFile,      \* bytes of the file the file server serves
    manifest,     \* the manifest DownloadFile is given
    outFile,      \* bytes of the file at outputPath
    conns,        \* the TCP connections dialed so far, in dial order
    dfPc,         \* where DownloadFile is
    dfI,          \* DownloadFile's loop index i
    dfConn,       \* the connection of the current iteration
    dfData,       \* chunkData
    dfErr,        \* the error DownloadFile returned
    dcPc,         \* where DownloadChunk is
    dcIndex,      \* DownloadChunk's chunkIndex argument
    dcConn,       \* DownloadChunk's connection
    dcData,       \* the data DownloadChunk returned
    dcErr,        \* the error DownloadChunk returned
    \* ---- SpecTracker: HTTP handlers over the registry
    registry,     \* t.peers: file hash -> slice of peers
    heap,         \* the backing arrays of the slices, in allocation order
    mu,           \* t.mu, the sync.RWMutex
    handlers      \* one goroutine per HTTP request, in arrival order

writerVars == <<wcFile, wcHandle, wcCall>>

chunkerVars == <<cmFile, cmChunkSize, cmResult, gcCall, vcCall, writerVars>>

dfVars == <<dfPc, dfI, dfConn, dfData, dfErr>>

dcVars == <<dcPc, dcIndex, dcConn, dcData, dcErr>>

transferVars == <<env, listening, acceptFailed, clients, srvFile, manifest, outFile, conns, dfVars, dcVars>>

trackerVars == <<registry, heap, mu, handlers>>

vars == <<chunkerVars, transferVars, trackerVars>>

----------------------------------------------------------------------------
(* Bounds of the model.                                                    *)

\* longest file, in bytes
MaxFileSize == 4
\* largest positive chunkSize argument
MaxChunkSize == 3
\* chunkSize arguments range over -MaxNegChunkSize .. MaxChunkSize
MaxNegChunkSize == 2

Byte == {0, 1}

BytesUpTo(n) == UNION {[1..k -> Byte] : k \in 0..n}

Files == BytesUpTo(MaxFileSize)

\* longest file, chunk and data of a WriteChunk call, in bytes
MaxWriteLen == 2

\* number of HTTP requests the tracker receives
MaxRequests == 3

\* number of connections the clients of SpecServer open
MaxServerConns == 2

\* number of connections the clients of SpecServerFair open
MaxFairConns == 1

\* file.DefaultChunkSize, the chunk size the file server cuts its file with
\* (1024 * 1024 in the source), on the scale of the model's files
DefaultChunkSize == 2

\* bytes a connection takes from conn.Write while the client does not read
\* (the room in the socket buffers), on the same scale: less than a chunk
\* of DefaultChunkSize bytes
SocketBuffer == 1

\* longest file served or downloaded in SpecTransfer, in bytes
MaxXferFileSize == 3

XferFiles == BytesUpTo(MaxXferFileSize)

----------------------------------------------------------------------------
(* Program constants.                                                      *)

\* len(fmt.Sprintf("%x", sha256sum)): a SHA-256 digest printed in hex
HexDigestLen == 64

----------------------------------------------------------------------------
(* internal/file                                                           *)

\* Go's integer division truncates toward zero.
GoDiv(a, b) ==
    LET abs(x) == IF x < 0 THEN -x ELSE x
        q == abs(a) \div abs(b)
    IN  IF (a < 0) = (b < 0) THEN q ELSE -q

\* sha256 of data, printed with %x.  SHA-256 is taken to be collision free:
\* two digests are equal exactly when the hashed byte strings are.  Every
\* digest string has HexDigestLen characters.
SHA256Hex(data) == [sha256 |-> data]

\* file.Seek(offset, 0) followed by file.WriteTo(hash): everything from the
\* offset to the end of the file is fed to the hash.  Seeking past the end
\* is allowed and then nothing is read.
ReadToEOF(file, offset) ==
    IF offset >= Len(file) THEN <<>> ELSE SubSeq(file, offset + 1, Len(file))

\* Mutant of NumChunks: the division without rounding up.
NumChunksRoundedDown(fileSize, chunkSize) == GoDiv(fileSize, chunkSize)

\* numChunks := (fileInfo.Size() + chunkSize - 1) / chunkSize
NumChunks(fileSize, chunkSize) == GoDiv(fileSize + chunkSize - 1, chunkSize)

\* The loop-local chunkSize of iteration i: it shadows the argument and is
\* reassigned for the last chunk.
LoopChunkSize(fileSize, chunkSize, numChunks, i) ==
    IF i = numChunks - 1 THEN fileSize - (i * chunkSize) ELSE chunkSize

\* The offset iteration i seeks to: i times the loop-local chunkSize.
LoopSeekOffset(fileSize, chunkSize, numChunks, i) ==
    i * LoopChunkSize(fileSize, chunkSize, numChunks, i)

\* The Chunk iteration i stores in manifest.Chunks[i].
LoopChunk(file, chunkSize, numChunks, i) ==
    [hash |-> SHA256Hex(ReadToEOF(file,
                  LoopSeekOffset(Len(file), chunkSize, numChunks, i))),
     size |-> LoopChunkSize(Len(file), chunkSize, numChunks, i)]

NilManifest ==
    [fileSize |-> 0, chunkSize |-> 0, chunks |-> <<>>, fileHash |-> SHA256Hex(<<>>)]

\* CreateManifest(filePath, chunkSize) on a readable file.  status is "ok"
\* (manifest, nil), "error" (nil, err) or "panic" (the goroutine crashes:
\* integer divide by zero, or make with a negative length).
CreateManifest(file, chunkSize) ==
    IF chunkSize = 0
    THEN [status |-> "panic", err |-> "integer divide by zero", manifest |-> NilManifest]
    ELSE
      LET numChunks == NumChunks(Len(file), chunkSize) IN
      IF numChunks < 0
      THEN [status |-> "panic", err |-> "makeslice: len out of range",
            manifest |-> NilManifest]
      ELSE IF \E i \in 0..(numChunks - 1) :
                  LoopSeekOffset(Len(file), chunkSize, numChunks, i) < 0
      THEN [status |-> "error", err |-> "seek: invalid argument",
            manifest |-> NilManifest]
      ELSE [status |-> "ok", err |-> "nil",
            manifest |->
              [fileSize  |-> Len(file),
               chunkSize |-> chunkSize,
               chunks    |-> [k \in 1..numChunks |->
                                 LoopChunk(file, chunkSize, numChunks, k - 1)],
               fileHash  |-> SHA256Hex(ReadToEOF(file, 0))]]

\* offset := 0; for i := 0; i < len(chunk.Hash); i++ { offset += chunk.Size }
GetChunkOffset(chunk) == HexDigestLen * chunk.size

\* GetChunk(filePath, chunk) on a readable file: seek, io.ReadFull of
\* chunk.Size bytes, digest comparison.
GetChunk(file, chunk) ==
    LET offset == GetChunkOffset(chunk)
        avail  == ReadToEOF(file, offset)
        data   == SubSeq(avail, 1, chunk.size)
    IN  IF offset < 0
        THEN [err |-> "seek: invalid argument", data |-> <<>>]
        ELSE IF Len(avail) < chunk.size
        THEN [err |-> IF Len(avail) = 0 THEN "EOF" ELSE "unexpected EOF",
              data |-> <<>>]
        ELSE IF SHA256Hex(data) # chunk.hash
        THEN [err |-> "chunk hash verification failed", data |-> <<>>]
        ELSE [err |-> "nil", data |-> data]

\* VerifyChunk(chunk, data)
VerifyChunk(chunk, data) == SHA256Hex(data) = chunk.hash

\* Where file.Write puts its bytes: at the handle's offset, or at the end of
\* the file for a handle opened with O_APPEND.
WritePos(content, handle) ==
    IF handle.append THEN Len(content) ELSE handle.offset

\* What n, err := file.Write(data) can return: all of data and nil; or an
\* error with fewer bytes than data has, or, for data of no byte, with none
\* (the write call is issued for no byte too, and fails on a handle that is
\* read-only or closed).
WriteReturn(data, n, werr) ==
    /\ n \in 0..Len(data)
    /\ werr \in {"nil", "write"}
    /\ werr = "nil" => n = Len(data)
    /\ werr = "write" => (n < Len(data) \/ data = <<>>)

\* file.Write(data) of which n bytes reach the file: they replace what is at
\* the write position and extend the file where they pass its end (a gap
\* between the old end and the position reads as zeros).  Nothing changes
\* when no byte is written.
FileWrite(content, handle, data, n) ==
    LET pos == WritePos(content, handle)
        len == IF pos + n > Len(content) THEN pos + n ELSE Len(content)
    IN  IF n = 0
        THEN [content |-> content, handle |-> handle]
        ELSE [content |-> [k \in 1..len |->
                             IF k > pos /\ k <= pos + n THEN data[k - pos]
                             ELSE IF k <= Len(content) THEN content[k]
                             ELSE 0],
              handle  |-> [handle EXCEPT !.offset = pos + n]]

\* Mutant of WriteChunk: the data is written without the digest comparison.
WriteChunkUnverified(content, handle, chunk, data, n, werr) ==
    LET w == FileWrite(content, handle, data, n) IN
    [err |-> werr, content |-> w.content, handle |-> w.handle]

\* WriteChunk(file, chunk, data), where file.Write gets n of the bytes of
\* data into the file and returns the error werr: the error WriteChunk
\* returns, and the file and the handle afterwards.
WriteChunk(content, handle, chunk, data, n, werr) ==
    IF SHA256Hex(data) # chunk.hash
    THEN [err |-> "chunk hash verification failed",
          content |-> content, handle |-> handle]
    ELSE LET w == FileWrite(content, handle, data, n) IN
         [err |-> werr, content |-> w.content, handle |-> w.handle]

----------------------------------------------------------------------------
(* Values shared by the specifications.                                    *)

\* fmt.Errorf(format, args...): the format and the values it prints.
Errorf(format, args) == [format |-> format, args |-> args]

NilError == Errorf("nil", <<>>)

\* NewTracker(): an empty map; the zero RWMutex.  w is the goroutine that
\* holds the writer side (0: none), active whether it has the lock or still
\* waits for the readers to leave, readers the goroutines holding RLock.
NewTracker ==
    /\ registry = <<>>
    /\ heap = <<>>
    /\ mu = [w |-> 0, active |-> FALSE, readers |-> {}]

\* SpecTracker's variables while another specification runs.
IdleTracker ==
    /\ NewTracker
    /\ handlers = <<>>

\* SpecTransfer's variables while another specification runs.
IdleTransfer ==
    /\ env = "server"
    /\ listening = TRUE
    /\ acceptFailed = FALSE
    /\ clients = {}
    /\ srvFile = <<>>
    /\ manifest = NilManifest
    /\ outFile = <<>>
    /\ conns = <<>>
    /\ dfPc = "start" /\ dfI = 0 /\ dfConn = 0 /\ dfData = <<>> /\ dfErr = NilError
    /\ dcPc = "start" /\ dcIndex = 0 /\ dcConn = 0 /\ dcData = <<>> /\ dcErr = NilError

----------------------------------------------------------------------------
(* SpecChunker: the functions of internal/file applied to bounded inputs.  *)

NoGetChunk == [called |-> FALSE, index |-> 0, result |-> [err |-> "nil", data |-> <<>>]]
NoVerifyChunk == [called |-> FALSE, index |-> 0, data |-> <<>>, result |-> FALSE]
NoManifestYet == [status |-> "none", err |-> "nil", manifest |-> NilManifest]

NoWriteChunk ==
    [called |-> FALSE, chunk |-> [hash |-> SHA256Hex(<<>>), size |-> 0],
     data |-> <<>>, before |-> <<>>, pos |-> 0, err |-> "nil"]

\* SpecWriter's variables while another specification runs.
IdleWriter ==
    /\ wcFile = <<>>
    /\ wcHandle = [offset |-> 0, append |-> FALSE]
    /\ wcCall = NoWriteChunk

IdleChunker ==
    /\ cmFile = <<>>
    /\ cmChunkSize = 1
    /\ cmResult = NoManifestYet
    /\ gcCall = NoGetChunk
    /\ vcCall = NoVerifyChunk
    /\ IdleWriter

InitChunker ==
    /\ IdleTransfer
    /\ IdleTracker
    /\ IdleWriter
    /\ cmFile \in Files
    /\ cmChunkSize \in ((0 - MaxNegChunkSize)..MaxChunkSize) \cup {DefaultChunkSize}
    /\ cmResult = NoManifestYet
    /\ gcCall = NoGetChunk
    /\ vcCall = NoVerifyChunk

\* manifest, err := file.CreateManifest(filePath, chunkSize)
CallCreateManifest ==
    /\ cmResult.status = "none"
    /\ cmResult' = CreateManifest(cmFile, cmChunkSize)
    /\ UNCHANGED <<cmFile, cmChunkSize, gcCall, vcCall, writerVars>>
    /\ UNCHANGED <<transferVars, trackerVars>>

\* data, err := file.GetChunk(filePath, manifest.Chunks[i])
CallGetChunk(i) ==
    /\ cmResult.status = "ok"
    /\ ~gcCall.called
    /\ i \in 0..(Len(cmResult.manifest.chunks) - 1)
    /\ gcCall' = [called |-> TRUE, index |-> i,
                  result |-> GetChunk(cmFile, cmResult.manifest.chunks[i + 1])]
    /\ UNCHANGED <<cmFile, cmChunkSize, cmResult, vcCall, writerVars>>
    /\ UNCHANGED <<transferVars, trackerVars>>

\* ok := file.VerifyChunk(manifest.Chunks[i], data)
CallVerifyChunk(i, data) ==
    /\ cmResult.status = "ok"
    /\ ~vcCall.called
    /\ i \in 0..(Len(cmResult.manifest.chunks) - 1)
    /\ vcCall' = [called |-> TRUE, index |-> i, data |-> data,
                  result |-> VerifyChunk(cmResult.manifest.chunks[i + 1], data)]
    /\ UNCHANGED <<cmFile, cmChunkSize, cmResult, gcCall, writerVars>>
    /\ UNCHANGED <<transferVars, trackerVars>>

NextChunker ==
    \/ CallCreateManifest
    \/ \E i \in 0..MaxFileSize : CallGetChunk(i)
    \/ \E i \in 0..MaxFileSize, data \in Files : CallVerifyChunk(i, data)

SpecChunker == InitChunker /\ [][NextChunker]_vars

----------------------------------------------------------------------------
(* SpecWriter: WriteChunk applied to a file handle.                        *)

WriteBytes == BytesUpTo(MaxWriteLen)

\* The handle is open on a file of any content, at any offset from the
\* start to the end, with or without O_APPEND.
InitWriter ==
    /\ IdleTransfer
    /\ IdleTracker
    /\ cmFile = <<>>
    /\ cmChunkSize = 1
    /\ cmResult = NoManifestYet
    /\ gcCall = NoGetChunk
    /\ vcCall = NoVerifyChunk
    /\ wcFile \in WriteBytes
    /\ wcHandle \in [offset : 0..MaxWriteLen, append : BOOLEAN]
    /\ wcHandle.offset <= Len(wcFile)
    /\ wcCall = NoWriteChunk

\* err := file.WriteChunk(f, chunk, data), for a chunk that carries the
\* digest of some bytes of.
CallWriteChunk(of, data, n, werr) ==
    /\ ~wcCall.called
    /\ WriteReturn(data, n, werr)
    /\ LET chunk == [hash |-> SHA256Hex(of), size |-> Len(of)]
           r == WriteChunk(wcFile, wcHandle, chunk, data, n, werr)
       IN  /\ wcFile' = r.content
           /\ wcHandle' = r.handle
           /\ wcCall' = [called |-> TRUE, chunk |-> chunk, data |-> data,
                         before |-> wcFile, pos |-> WritePos(wcFile, wcHandle),
                         err |-> r.err]
    /\ UNCHANGED <<cmFile, cmChunkSize, cmResult, gcCall, vcCall>>
    /\ UNCHANGED <<transferVars, trackerVars>>

NextWriter ==
    \E of \in WriteBytes, data \in WriteBytes, n \in 0..MaxWriteLen,
       werr \in {"nil", "write"} :
        CallWriteChunk(of, data, n, werr)

SpecWriter == InitWriter /\ [][NextWriter]_vars

----------------------------------------------------------------------------
(* internal/peer: the serving side.                                        *)

\* A connection: who dialed it, the request the requester has put on it,
\* where the peer's side of it is, the chunkData of its handler, the bytes
\* the peer wrote to it, and whether the requester still holds it open.
NewConn(by) ==
    [by |-> by, reqSent |-> FALSE, reqIndex |-> 0,
     srv |-> "dialed", chunkData |-> <<>>, sent |-> <<>>, clientOpen |-> TRUE]

\* Mutant of handleConnection: the message for an invalid index is written
\* to the connection (fmt.Fprintf(conn, ...)) instead of to standard output.
handleConnectionRepliesError(file, m, decoded, chunkIndex) ==
    IF ~decoded
    THEN [path |-> "Error reading chunk request", payload |-> <<>>]
    ELSE IF m.status # "ok"
    THEN [path |-> "Error creating manifest", payload |-> <<>>]
    ELSE IF chunkIndex < 0 \/ chunkIndex >= Len(m.manifest.chunks)
    THEN [path |-> "Invalid chunk index", payload |-> <<1, 0, 1>>]
    ELSE LET r == GetChunk(file, m.manifest.chunks[chunkIndex + 1]) IN
         IF r.err # "nil"
         THEN [path |-> "Error reading chunk", payload |-> <<>>]
         ELSE [path |-> "sent", payload |-> r.data]

\* handleConnection(conn, filePath) up to its conn.Write: the return it
\* leaves by without a conn.Write, or the payload it hands to conn.Write.
\* decoded is FALSE when json.Decode failed; m is what
\* file.CreateManifest(filePath, file.DefaultChunkSize) returns.  Line 156
\* writes the read of the chunk as
\* file.GetChunk(filePath, manifest, req.ChunkIndex); GetChunk, the one
\* function of that name in internal/file, takes the chunk itself,
\* manifest.Chunks[req.ChunkIndex].
handleConnection(file, m, decoded, chunkIndex) ==
    IF ~decoded
    THEN [path |-> "Error reading chunk request", payload |-> <<>>]
    ELSE IF m.status # "ok"
    THEN [path |-> "Error creating manifest", payload |-> <<>>]
    ELSE IF chunkIndex < 0 \/ chunkIndex >= Len(m.manifest.chunks)
    THEN [path |-> "Invalid chunk index", payload |-> <<>>]
    ELSE LET r == GetChunk(file, m.manifest.chunks[chunkIndex + 1]) IN
         IF r.err # "nil"
         THEN [path |-> "Error reading chunk", payload |-> <<>>]
         ELSE [path |-> "sent", payload |-> r.data]

\* conn, err := ln.Accept(); go handleConnection(conn, filePath)
Accept(c) ==
    /\ env = "server"
    /\ listening
    /\ c \in DOMAIN conns
    /\ conns[c].srv = "dialed"
    /\ conns' = [conns EXCEPT ![c].srv = "accepted"]
    /\ UNCHANGED <<chunkerVars, trackerVars, env, listening, acceptFailed, clients, srvFile, manifest, outFile, dfVars, dcVars>>

\* Mutant of AcceptFails: the loop is left on an Accept error (return err
\* instead of continue).
AcceptFailsReturns ==
    /\ env = "server"
    /\ listening
    /\ acceptFailed' = TRUE
    /\ listening' = FALSE
    /\ UNCHANGED <<chunkerVars, trackerVars, env, clients, srvFile, manifest, outFile, conns, dfVars, dcVars>>

\* conn, err := ln.Accept(); if err != nil { continue }: Accept returns an
\* error (no descriptor left, say), no connection is taken off the queue,
\* and the loop goes on to the next Accept.
AcceptFails ==
    /\ env = "server"
    /\ listening
    /\ acceptFailed' = TRUE
    /\ UNCHANGED <<chunkerVars, trackerVars, env, listening, clients, srvFile, manifest, outFile, conns, dfVars, dcVars>>

\* Mutant of HandleConnection: conn.Close() is not deferred, so the return
\* on a Decode error leaves the connection open.
HandleConnectionLeaks(c) ==
    /\ env = "server"
    /\ c \in DOMAIN conns
    /\ conns[c].srv = "accepted"
    /\ conns[c].reqSent \/ ~conns[c].clientOpen
    /\ \E m \in {CreateManifest(srvFile, DefaultChunkSize)} :
       \E h \in {handleConnection(srvFile, m, conns[c].reqSent, conns[c].reqIndex)} :
           conns' = [conns EXCEPT
                         ![c].chunkData = h.payload,
                         ![c].srv = IF ~conns[c].reqSent THEN "returned"
                                    ELSE IF h.payload = <<>> THEN "closed"
                                    ELSE "writing"]
    /\ UNCHANGED <<chunkerVars, trackerVars, env, listening, acceptFailed, clients, srvFile, manifest, outFile, dfVars, dcVars>>

\* The goroutine of one connection up to its conn.Write: Decode returns once
\* the request has arrived, or fails once the requester has closed without
\* one; m is the manifest, err of its file.CreateManifest call and h the
\* way it takes from there.  On a return before conn.Write the deferred
\* conn.Close() runs; otherwise the goroutine enters conn.Write(chunkData).
HandleConnection(c) ==
    /\ env = "server"
    /\ c \in DOMAIN conns
    /\ conns[c].srv = "accepted"
    /\ conns[c].reqSent \/ ~conns[c].clientOpen
    /\ \E m \in {CreateManifest(srvFile, DefaultChunkSize)} :
       \E h \in {handleConnection(srvFile, m, conns[c].reqSent, conns[c].reqIndex)} :
           conns' = [conns EXCEPT
                         ![c].chunkData = h.payload,
                         ![c].srv = IF h.payload = <<>> THEN "closed" ELSE "writing"]
    /\ UNCHANGED <<chunkerVars, trackerVars, env, listening, acceptFailed, clients, srvFile, manifest, outFile, dfVars, dcVars>>

\* The payload the goroutine of connection c hands to conn.Write.
ChunkData(c) == conns[c].chunkData

\* What conn.Write(chunkData) has still to put on connection c.
Unwritten(c) == Len(ChunkData(c)) - Len(conns[c].sent)

\* conn.Write(chunkData) goes on: it puts some more of the payload on the
\* connection, where the requester can read it at once, and returns nil
\* when the last byte is on.  Once the requester has gone the write fails
\* sooner or later: it may get more bytes out first, all of them even, and
\* it may return its error (n = 0) at any point.  The write has no
\* deadline: it waits for as long as the rest of the payload is more than
\* the socket buffers hold and the requester neither takes the bytes nor
\* closes.
ConnWrite(c) ==
    /\ env = "server"
    /\ c \in DOMAIN conns
    /\ conns[c].srv = "writing"
    /\ \E n \in 0..Unwritten(c) :
          /\ n > 0 \/ ~conns[c].clientOpen
          /\ conns' = [conns EXCEPT
                 ![c].sent = conns[c].sent \o
                     SubSeq(ChunkData(c), Len(conns[c].sent) + 1, Len(conns[c].sent) + n),
                 ![c].srv = IF n = Unwritten(c) \/ n = 0
                            THEN "written" ELSE "writing"]
    /\ UNCHANGED <<chunkerVars, trackerVars, env, listening, acceptFailed, clients, srvFile, manifest, outFile, dfVars, dcVars>>

\* handleConnection returns after conn.Write, with or without its error
\* message: the deferred conn.Close().
ConnClose(c) ==
    /\ env = "server"
    /\ c \in DOMAIN conns
    /\ conns[c].srv = "written"
    /\ conns' = [conns EXCEPT ![c].srv = "closed"]
    /\ UNCHANGED <<chunkerVars, trackerVars, env, listening, acceptFailed, clients, srvFile, manifest, outFile, dfVars, dcVars>>

\* The size of the chunk a request asks for, by the requester's manifest: the
\* number of bytes DownloadFile reads from the connection.
RequestedSize(chunkIndex) ==
    IF chunkIndex \in 0..(Len(manifest.chunks) - 1)
    THEN manifest.chunks[chunkIndex + 1].size
    ELSE 0

\* A peer that is not this program: it answers a request with any bytes
\* and closes.  One byte more than the requester reads stands for every
\* longer answer.
ArbitraryPeerRespond(c, bytes) ==
    /\ env = "arbitrary"
    /\ c \in DOMAIN conns
    /\ conns[c].srv = "dialed"
    /\ conns[c].reqSent
    /\ Len(bytes) <= RequestedSize(conns[c].reqIndex) + 1
    /\ conns' = [conns EXCEPT ![c].sent = bytes, ![c].srv = "closed"]
    /\ UNCHANGED <<chunkerVars, trackerVars, env, listening, acceptFailed, clients, srvFile, manifest, outFile, dfVars, dcVars>>

\* Any TCP client of the file server: it connects,
RawDial(limit) ==
    /\ env = "server"
    /\ Len(conns) < limit
    /\ conns' = Append(conns, NewConn("raw"))
    /\ UNCHANGED <<chunkerVars, trackerVars, env, listening, acceptFailed, clients, srvFile, manifest, outFile, dfVars, dcVars>>

\* sends a request when it likes to,
RawSend(c, chunkIndex) ==
    /\ c \in DOMAIN conns
    /\ conns[c].by = "raw"
    /\ conns[c].clientOpen
    /\ ~conns[c].reqSent
    /\ conns' = [conns EXCEPT ![c].reqSent = TRUE, ![c].reqIndex = chunkIndex]
    /\ UNCHANGED <<chunkerVars, trackerVars, env, listening, acceptFailed, clients, srvFile, manifest, outFile, dfVars, dcVars>>

\* and closes when it likes to, with or without having sent one.
RawClose(c) ==
    /\ c \in DOMAIN conns
    /\ conns[c].by = "raw"
    /\ conns[c].clientOpen
    /\ conns' = [conns EXCEPT ![c].clientOpen = FALSE]
    /\ UNCHANGED <<chunkerVars, trackerVars, env, listening, acceptFailed, clients, srvFile, manifest, outFile, dfVars, dcVars>>

----------------------------------------------------------------------------
(* internal/peer: DownloadFile.                                            *)

\* The deferred conn.Close() of every iteration run when DownloadFile returns.
CloseAll(cs, by) ==
    [c \in DOMAIN cs |->
        IF cs[c].by = by THEN [cs[c] EXCEPT !.clientOpen = FALSE] ELSE cs[c]]

\* return err (or return nil), with the deferred closes.
DFReturn(err) ==
    /\ dfPc' = "returned"
    /\ dfErr' = err
    /\ conns' = CloseAll(conns, "df")

\* Mutant of DFCreate: the output file is opened without being truncated.
DFCreateNoTruncate ==
    /\ dfPc = "start"
    /\ "DownloadFile" \in clients
    /\ \/ /\ dfPc' = "loop"
          /\ UNCHANGED <<outFile, dfErr, conns>>
       \/ /\ env = "arbitrary"
          /\ DFReturn(Errorf("failed to create output directory: %v", <<"mkdir">>))
          /\ UNCHANGED outFile
       \/ /\ env = "arbitrary"
          /\ DFReturn(Errorf("failed to create output file: %v", <<"open">>))
          /\ UNCHANGED outFile
    /\ UNCHANGED <<chunkerVars, trackerVars, env, listening, acceptFailed, clients, srvFile, manifest, dfI, dfConn, dfData, dcVars>>

\* os.MkdirAll and os.Create(outputPath): the file is created or truncated,
\* or one of the two calls fails and the file is left as it was.
DFCreate ==
    /\ dfPc = "start"
    /\ "DownloadFile" \in clients
    /\ \/ /\ outFile' = <<>>
          /\ dfPc' = "loop"
          /\ UNCHANGED <<dfErr, conns>>
       \/ /\ env = "arbitrary"
          /\ DFReturn(Errorf("failed to create output directory: %v", <<"mkdir">>))
          /\ UNCHANGED outFile
       \/ /\ env = "arbitrary"
          /\ DFReturn(Errorf("failed to create output file: %v", <<"open">>))
          /\ UNCHANGED outFile
    /\ UNCHANGED <<chunkerVars, trackerVars, env, listening, acceptFailed, clients, srvFile, manifest, dfI, dfConn, dfData, dcVars>>

\* The range loop is over: return nil.
DFDone ==
    /\ dfPc = "loop"
    /\ dfI >= Len(manifest.chunks)
    /\ DFReturn(NilError)
    /\ UNCHANGED <<chunkerVars, trackerVars, env, listening, acceptFailed, clients, srvFile, manifest, outFile, dfI, dfConn, dfData, dcVars>>

\* conn, err := net.Dial(...); defer conn.Close()
DFDial ==
    /\ dfPc = "loop"
    /\ dfI < Len(manifest.chunks)
    /\ \/ /\ conns' = Append(conns, NewConn("df"))
          /\ dfConn' = Len(conns) + 1
          /\ dfPc' = "send"
          /\ UNCHANGED dfErr
       \/ /\ env = "arbitrary"
          /\ DFReturn(Errorf("failed to connect to peer: %v", <<"dial">>))
          /\ UNCHANGED dfConn
    /\ UNCHANGED <<chunkerVars, trackerVars, env, listening, acceptFailed, clients, srvFile, manifest, outFile, dfI, dfData, dcVars>>

\* Mutant of DFSend: the chunks are asked for from the last to the first.
DFSendDescending ==
    /\ dfPc = "send"
    /\ \/ /\ conns' = [conns EXCEPT ![dfConn].reqSent = TRUE,
                                    ![dfConn].reqIndex = Len(manifest.chunks) - 1 - dfI]
          /\ dfPc' = "read"
          /\ UNCHANGED dfErr
       \/ /\ env = "arbitrary"
          /\ DFReturn(Errorf("failed to send chunk request: %v", <<"write">>))
    /\ UNCHANGED <<chunkerVars, trackerVars, env, listening, acceptFailed, clients, srvFile, manifest, outFile, dfI, dfConn, dfData, dcVars>>

\* json.NewEncoder(conn).Encode(req) with ChunkIndex: i
DFSend ==
    /\ dfPc = "send"
    /\ \/ /\ conns' = [conns EXCEPT ![dfConn].reqSent = TRUE, ![dfConn].reqIndex = dfI]
          /\ dfPc' = "read"
          /\ UNCHANGED dfErr
       \/ /\ env = "arbitrary"
          /\ DFReturn(Errorf("failed to send chunk request: %v", <<"write">>))
    /\ UNCHANGED <<chunkerVars, trackerVars, env, listening, acceptFailed, clients, srvFile, manifest, outFile, dfI, dfConn, dfData, dcVars>>

\* chunkData := make([]byte, chunk.Size); io.ReadFull(conn, chunkData):
\* returns once chunk.Size bytes have arrived, or fails when the peer has
\* closed before that.
DFRead ==
    /\ dfPc = "read"
    /\ LET size == manifest.chunks[dfI + 1].size
           c    == conns[dfConn]
       IN  \/ /\ Len(c.sent) >= size
              /\ dfData' = SubSeq(c.sent, 1, size)
              /\ dfPc' = "verify"
              /\ UNCHANGED <<dfErr, conns>>
           \/ /\ Len(c.sent) < size
              /\ c.srv = "closed"
              /\ DFReturn(Errorf("failed to read chunk data: %v",
                         <<IF Len(c.sent) = 0 THEN "EOF" ELSE "unexpected EOF">>))
              /\ UNCHANGED dfData
    /\ UNCHANGED <<chunkerVars, trackerVars, env, listening, acceptFailed, clients, srvFile, manifest, outFile, dfI, dfConn, dcVars>>

\* Mutant of DFVerify: the result of VerifyChunk is ignored.
DFVerifyIgnored ==
    /\ dfPc = "verify"
    /\ dfPc' = "write"
    /\ UNCHANGED <<dfErr, conns>>
    /\ UNCHANGED <<chunkerVars, trackerVars, env, listening, acceptFailed, clients, srvFile, manifest, outFile, dfI, dfConn, dfData, dcVars>>

\* if !file.VerifyChunk(chunk, chunkData) { return fmt.Errorf(...) }
DFVerify ==
    /\ dfPc = "verify"
    /\ IF VerifyChunk(manifest.chunks[dfI + 1], dfData)
       THEN /\ dfPc' = "write"
            /\ UNCHANGED <<dfErr, conns>>
       ELSE DFReturn(Errorf("chunk hash verification failed", <<>>))
    /\ UNCHANGED <<chunkerVars, trackerVars, env, listening, acceptFailed, clients, srvFile, manifest, outFile, dfI, dfConn, dfData, dcVars>>

\* outFile.Write(chunkData): all of it is appended, or, when the write
\* fails, some shorter prefix of it.
DFWrite ==
    /\ dfPc = "write"
    /\ \/ /\ outFile' = outFile \o dfData
          /\ dfI' = dfI + 1
          /\ dfPc' = "loop"
          /\ UNCHANGED <<dfErr, conns>>
       \/ /\ env = "arbitrary"
          /\ \E n \in 0..(Len(dfData) - 1) : outFile' = outFile \o SubSeq(dfData, 1, n)
          /\ DFReturn(Errorf("failed to write chunk to file: %v", <<"write">>))
          /\ UNCHANGED dfI
    /\ UNCHANGED <<chunkerVars, trackerVars, env, listening, acceptFailed, clients, srvFile, manifest, dfConn, dfData, dcVars>>

----------------------------------------------------------------------------
(* internal/peer: DownloadChunk.                                           *)

\* return data, err with the deferred conn.Close()
DCReturn(data, err) ==
    /\ dcPc' = "returned"
    /\ dcData' = data
    /\ dcErr' = err
    /\ conns' = CloseAll(conns, "dc")

\* DownloadChunk(peer, chunkIndex): net.Dial; defer conn.Close()
DCDial(chunkIndex) ==
    /\ dcPc = "start"
    /\ "DownloadChunk" \in clients
    /\ dcIndex' = chunkIndex
    /\ \/ /\ conns' = Append(conns, NewConn("dc"))
          /\ dcConn' = Len(conns) + 1
          /\ dcPc' = "send"
          /\ UNCHANGED <<dcData, dcErr>>
       \/ /\ env = "arbitrary"
          /\ DCReturn(<<>>, Errorf("failed to connect to peer: %v", <<"dial">>))
          /\ UNCHANGED dcConn
    /\ UNCHANGED <<chunkerVars, trackerVars, env, listening, acceptFailed, clients, srvFile, manifest, outFile, dfVars>>

\* json.NewEncoder(conn).Encode(request)
DCSend ==
    /\ dcPc = "send"
    /\ \/ /\ conns' = [conns EXCEPT ![dcConn].reqSent = TRUE,
                                    ![dcConn].reqIndex = dcIndex]
          /\ dcPc' = "read"
          /\ UNCHANGED <<dcData, dcErr>>
       \/ /\ env = "arbitrary"
          /\ DCReturn(<<>>, Errorf("failed to send chunk request: %v", <<"write">>))
    /\ UNCHANGED <<chunkerVars, trackerVars, env, listening, acceptFailed, clients, srvFile, manifest, outFile, dcIndex, dcConn, dfVars>>

\* data, err := io.ReadAll(conn): everything the peer wrote before it
\* closed, with a nil error; an error only when the read itself fails.
DCReadAll ==
    /\ dcPc = "read"
    /\ \/ /\ conns[dcConn].srv = "closed"
          /\ DCReturn(conns[dcConn].sent, NilError)
       \/ /\ env = "arbitrary"
          /\ DCReturn(<<>>, Errorf("failed to read chunk data: %v", <<"read">>))
    /\ UNCHANGED <<chunkerVars, trackerVars, env, listening, acceptFailed, clients, srvFile, manifest, outFile, dcIndex, dcConn, dfVars>>

----------------------------------------------------------------------------
(* SpecTransfer                                                            *)

\* A manifest of file whose chunk digests cover exactly each chunk's byte
\* range: what a manifest file written by a conforming chunker holds.
\* DownloadFile takes whatever manifest LoadManifest read.
ExactManifest(file, chunkSize) ==
    LET n == (Len(file) + chunkSize - 1) \div chunkSize
        from(k) == (k - 1) * chunkSize + 1
        to(k) == IF k * chunkSize < Len(file) THEN k * chunkSize ELSE Len(file)
    IN  [fileSize  |-> Len(file),
         chunkSize |-> chunkSize,
         chunks    |-> [k \in 1..n |->
                          [hash |-> SHA256Hex(SubSeq(file, from(k), to(k))),
                           size |-> to(k) - from(k) + 1]],
         fileHash  |-> SHA256Hex(file)]

XferChunkSizes == (1..MaxChunkSize) \cup {DefaultChunkSize}

\* The file server sends a chunk only when GetChunk's seek to
\* len(chunk.Hash) * chunk.Size meets the chunk: that is chunk number
\* HexDigestLen of a file of HexDigestLen + 1 full chunks, the shortest file
\* of which any chunk is sent.
ServableIndex == HexDigestLen

ServableFile == [k \in 1..((HexDigestLen + 1) * DefaultChunkSize) |-> k % 2]

InitTransfer ==
    /\ IdleChunker
    /\ IdleTracker
    /\ env \in {"server", "arbitrary"}
    /\ listening = TRUE
    /\ acceptFailed = FALSE
    /\ IF env = "server"
       THEN \* a peer serves srvFile; the requester holds the manifest that
            \* CreateManifest made of it and calls both functions
            /\ srvFile \in XferFiles \cup {ServableFile}
            /\ \E cs \in XferChunkSizes : manifest = CreateManifest(srvFile, cs).manifest
            /\ clients = {"DownloadFile", "DownloadChunk"}
       ELSE \* any peer: the requester holds a manifest file of some file
            /\ srvFile = <<>>
                    /\ \E f \in XferFiles, cs \in 1..MaxChunkSize :
                  manifest \in {CreateManifest(f, cs).manifest, ExactManifest(f, cs)}
            /\ clients \in {{"DownloadFile"}, {"DownloadChunk"}}
    /\ outFile \in {<<>>, <<1>>}
    /\ conns = <<>>
    /\ dfPc = "start" /\ dfI = 0 /\ dfConn = 0 /\ dfData = <<>> /\ dfErr = NilError
    /\ dcPc = "start" /\ dcIndex = 0 /\ dcConn = 0 /\ dcData = <<>> /\ dcErr = NilError

MaxConns == MaxXferFileSize + 1

NextTransfer ==
    \/ DFCreate
    \/ DFDone
    \/ DFDial
    \/ DFSend
    \/ DFRead
    \/ DFVerify
    \/ DFWrite
    \/ \E idx \in ((0 - 1)..MaxXferFileSize) \cup {ServableIndex} : DCDial(idx)
    \/ DCSend
    \/ DCReadAll
    \/ \E c \in 1..MaxConns : Accept(c)
    \/ \E c \in 1..MaxConns : HandleConnection(c)
    \/ \E c \in 1..MaxConns : ConnWrite(c)
    \/ \E c \in 1..MaxConns : ConnClose(c)
    \/ \E c \in 1..MaxConns, bytes \in BytesUpTo(MaxXferFileSize + 1) :
          ArbitraryPeerRespond(c, bytes)

SpecTransfer == InitTransfer /\ [][NextTransfer]_vars

----------------------------------------------------------------------------
(* SpecServer: the file server and any clients.                            *)

\* A file of no chunk, a file of one short chunk, which GetChunk fails to
\* read, and the file of which the last chunk is sent.
ServedFiles == {<<>>, <<1>>, ServableFile}

\* The chunk indexes the clients ask for.
RawIndexes == {0, ServableIndex}

\* StartFileServer has passed net.Listen and is in its loop.
InitServer ==
    /\ IdleChunker
    /\ IdleTracker
    /\ env = "server"
    /\ listening = TRUE
    /\ acceptFailed = FALSE
    /\ clients = {}
    /\ srvFile \in ServedFiles
    /\ manifest = NilManifest
    /\ outFile = <<>>
    /\ conns = <<>>
    /\ dfPc = "start" /\ dfI = 0 /\ dfConn = 0 /\ dfData = <<>> /\ dfErr = NilError
    /\ dcPc = "start" /\ dcIndex = 0 /\ dcConn = 0 /\ dcData = <<>> /\ dcErr = NilError

NextServer ==
    \/ RawDial(MaxServerConns)
    \/ \E c \in 1..MaxServerConns, idx \in RawIndexes : RawSend(c, idx)
    \/ \E c \in 1..MaxServerConns : RawClose(c)
    \/ \E c \in 1..MaxServerConns : Accept(c)
    \/ AcceptFails
    \/ \E c \in 1..MaxServerConns : HandleConnection(c)
    \/ \E c \in 1..MaxServerConns : ConnWrite(c)
    \/ \E c \in 1..MaxServerConns : ConnClose(c)

SpecServer == InitServer /\ [][NextServer]_vars

----------------------------------------------------------------------------
(* SpecServerFair: the file server under fair scheduling.                  *)

NextServerFair ==
    \/ RawDial(MaxFairConns)
    \/ \E c \in 1..MaxFairConns, idx \in RawIndexes : RawSend(c, idx)
    \/ \E c \in 1..MaxFairConns : RawClose(c)
    \/ \E c \in 1..MaxFairConns : Accept(c)
    \/ AcceptFails
    \/ \E c \in 1..MaxFairConns : HandleConnection(c)
    \/ \E c \in 1..MaxFairConns : ConnWrite(c)
    \/ \E c \in 1..MaxFairConns : ConnClose(c)

\* The next step of conn.Write on connection c does not depend on the
\* client: the socket buffers have room, or the client has closed.
WriteReturns(c) ==
    Len(conns[c].sent) < SocketBuffer \/ ~conns[c].clientOpen

\* The accept loop and the handler goroutines are scheduled fairly, and a
\* failing Accept does not fail for ever.  Nothing is assumed of the
\* clients, which may stall or stop at any point: a conn.Write is sure to
\* go on while the buffers have room, and after that only once the client
\* has closed.
ServerScheduling ==
    \A c \in 1..MaxFairConns :
        /\ WF_vars(Accept(c))
        /\ WF_vars(HandleConnection(c))
        /\ WF_vars(ConnWrite(c) /\ WriteReturns(c))
        /\ WF_vars(ConnClose(c))

SpecServerFair == InitServer /\ [][NextServerFair]_vars /\ ServerScheduling

----------------------------------------------------------------------------
(* internal/tracker                                                        *)

Peer(address, port) == [address |-> address, port |-> port]

\* The requests the tracker receives.  bodyOk: the body decodes as JSON
\* into an AnnounceRequest; absent fields decode to "" and 0.  For /peers
\* fileHash is the query parameter, "" when it is missing.
Request(endpoint, method, bodyOk, fileHash, peer) ==
    [endpoint |-> endpoint, method |-> method, bodyOk |-> bodyOk,
     fileHash |-> fileHash, peer |-> peer]

AnnounceRequests ==
    {Request("/announce", "POST", TRUE, "h1", Peer("localhost", 9000)),
     Request("/announce", "POST", TRUE, "h1", Peer("localhost", 9001)),
     Request("/announce", "POST", TRUE, "h2", Peer("localhost", 9000)),
     Request("/announce", "POST", TRUE, "", Peer("localhost", 9000)),
     Request("/announce", "POST", TRUE, "h1", Peer("", 0)),
     Request("/announce", "POST", FALSE, "", Peer("", 0)),
     Request("/announce", "GET", TRUE, "h1", Peer("localhost", 9000))}

GetPeersRequests ==
    {Request("/peers", "GET", TRUE, h, Peer("", 0)) : h \in {"h1", "h2", ""}}
    \cup {Request("/peers", "POST", TRUE, "h1", Peer("", 0))}

\* A Go slice of Peer: nil, or a window of len elements on a backing array
\* of cap elements.  Copying a slice copies this header, not the array.
NilSlice == [isNil |-> TRUE, arr |-> 0, len |-> 0, cap |-> 0]

\* The elements a slice shows, read from its backing array in the heap hp.
Elems(hp, slice) ==
    IF slice.isNil THEN <<>> ELSE SubSeq(hp[slice.arr], 1, slice.len)

\* The capacity append gives the array it allocates for one more element:
\* the runtime doubles the capacity of a small slice.
GrowCap(cap) == IF cap = 0 THEN 1 ELSE 2 * cap

\* Mutant of GoAppend: with room left, the element is stored over the last
\* one the slice shows instead of behind it.
GoAppendOverLast(hp, slice, peer) ==
    IF slice.len < slice.cap /\ slice.len > 0
    THEN [heap  |-> [hp EXCEPT ![slice.arr][slice.len] = peer,
                               ![slice.arr][slice.len + 1] = peer],
          slice |-> [slice EXCEPT !.len = slice.len + 1]]
    ELSE LET newCap == GrowCap(slice.cap)
             array == [k \in 1..newCap |->
                         IF k <= slice.len THEN Elems(hp, slice)[k]
                         ELSE IF k = slice.len + 1 THEN peer
                         ELSE Peer("", 0)]
         IN  [heap  |-> Append(hp, array),
              slice |-> [isNil |-> FALSE, arr |-> Len(hp) + 1,
                         len |-> slice.len + 1, cap |-> newCap]]

\* append(peers, peer): with room left in the backing array the element is
\* stored behind the slice's last one, in place; otherwise a larger array is
\* allocated and the elements are copied into it.  The heap and the slice
\* afterwards.
GoAppend(hp, slice, peer) ==
    IF slice.len < slice.cap
    THEN [heap  |-> [hp EXCEPT ![slice.arr][slice.len + 1] = peer],
          slice |-> [slice EXCEPT !.len = slice.len + 1]]
    ELSE LET newCap == GrowCap(slice.cap)
             array == [k \in 1..newCap |->
                         IF k <= slice.len THEN Elems(hp, slice)[k]
                         ELSE IF k = slice.len + 1 THEN peer
                         ELSE Peer("", 0)]
         IN  [heap  |-> Append(hp, array),
              slice |-> [isNil |-> FALSE, arr |-> Len(hp) + 1,
                         len |-> slice.len + 1, cap |-> newCap]]

\* t.peers[fileHash]: the zero value, a nil slice, for a key not in the map.
MapLookup(m, fileHash) ==
    IF fileHash \in DOMAIN m THEN m[fileHash] ELSE NilSlice

\* t.peers[fileHash] = slice
MapStore(m, fileHash, slice) ==
    [k \in DOMAIN m \cup {fileHash} |-> IF k = fileHash THEN slice ELSE m[k]]

\* for _, p := range peers { if p.Address == peer.Address && p.Port == peer.Port
Present(list, peer) ==
    \E k \in DOMAIN list :
        list[k].address = peer.address /\ list[k].port = peer.port

\* What the client receives: the status line and the body.  encoding/json
\* writes a nil slice as null and any other slice as an array.
Response(status, text, slice) ==
    [status |-> status, text |-> text,
     peersIsNull |-> slice.isNil, peers |-> Elems(heap, slice)]

NoResponse == Response(0, "", NilSlice)

StatusOK == 200
StatusBadRequest == 400
StatusMethodNotAllowed == 405

\* Mutant of AnnounceDecode: the error of json.Decode is not looked at.
AnnounceDecodeIgnoresError(req) ==
    IF req.method # "POST"
    THEN [req |-> req, pc |-> "done", local |-> NilSlice,
          resp |-> Response(StatusMethodNotAllowed, "Method not allowed", NilSlice)]
    ELSE [req |-> req, pc |-> "lock", local |-> NilSlice, resp |-> NoResponse]

\* Announce, lines 49-58: the method check and json.Decode.  What the
\* goroutine holds when it reaches t.mu.Lock(), or when it has returned.
AnnounceDecode(req) ==
    IF req.method # "POST"
    THEN [req |-> req, pc |-> "done", local |-> NilSlice,
          resp |-> Response(StatusMethodNotAllowed, "Method not allowed", NilSlice)]
    ELSE IF ~req.bodyOk
    THEN [req |-> req, pc |-> "done", local |-> NilSlice,
          resp |-> Response(StatusBadRequest, "Invalid request", NilSlice)]
    ELSE [req |-> req, pc |-> "lock", local |-> NilSlice, resp |-> NoResponse]

\* GetPeers, lines 83-92: the method check and the query parameter.
GetPeersParse(req) ==
    IF req.method # "GET"
    THEN [req |-> req, pc |-> "done", local |-> NilSlice,
          resp |-> Response(StatusMethodNotAllowed, "Method not allowed", NilSlice)]
    ELSE IF req.fileHash = ""
    THEN [req |-> req, pc |-> "done", local |-> NilSlice,
          resp |-> Response(StatusBadRequest, "Missing fileHash parameter", NilSlice)]
    ELSE [req |-> req, pc |-> "rlock", local |-> NilSlice, resp |-> NoResponse]

\* net/http starts a goroutine that calls t.Announce for a request to
\* /announce.  The handler runs up to t.mu.Lock(), or to its early return:
\* it has touched nothing shared so far.
ServeAnnounce(req) ==
    /\ Len(handlers) < MaxRequests
    /\ req.endpoint = "/announce"
    /\ handlers' = Append(handlers, AnnounceDecode(req))
    /\ UNCHANGED <<chunkerVars, transferVars, registry, heap, mu>>

\* The same for t.GetPeers and a request to /peers, up to t.mu.RLock().
ServeGetPeers(req) ==
    /\ Len(handlers) < MaxRequests
    /\ req.endpoint = "/peers"
    /\ handlers' = Append(handlers, GetPeersParse(req))
    /\ UNCHANGED <<chunkerVars, transferVars, registry, heap, mu>>

\* Mutant of AnnounceLock: the writer side is taken even while another
\* writer has it.
AnnounceLockNotExclusive(g) ==
    /\ g \in DOMAIN handlers
    /\ handlers[g].pc = "lock"
    /\ mu' = [mu EXCEPT !.w = g]
    /\ handlers' = [handlers EXCEPT ![g].pc = "locking"]
    /\ UNCHANGED <<chunkerVars, transferVars, registry, heap>>

\* t.mu.Lock(), first half: the writer side is taken, and from now on new
\* readers wait.
AnnounceLock(g) ==
    /\ g \in DOMAIN handlers
    /\ handlers[g].pc = "lock"
    /\ mu.w = 0
    /\ mu' = [mu EXCEPT !.w = g]
    /\ handlers' = [handlers EXCEPT ![g].pc = "locking"]
    /\ UNCHANGED <<chunkerVars, transferVars, registry, heap>>

\* t.mu.Lock(), second half: Lock returns when the readers have left.
AnnounceLocked(g) ==
    /\ g \in DOMAIN handlers
    /\ handlers[g].pc = "locking"
    /\ mu.w = g
    /\ mu.readers = {}
    /\ mu' = [mu EXCEPT !.active = TRUE]
    /\ handlers' = [handlers EXCEPT ![g].pc = "check"]
    /\ UNCHANGED <<chunkerVars, transferVars, registry, heap>>

\* t.mu.Unlock()
Unlock(m) == [m EXCEPT !.w = 0, !.active = FALSE]

\* Mutant of AnnounceCheck: the return for a peer that is present leaves
\* without t.mu.Unlock().
AnnounceCheckReturnsLocked(g) ==
    /\ g \in DOMAIN handlers
    /\ handlers[g].pc = "check"
    /\ LET req == handlers[g].req
           peers == MapLookup(registry, req.fileHash)
       IN  IF Present(Elems(heap, peers), req.peer)
           THEN handlers' = [handlers EXCEPT ![g].pc = "done",
                                ![g].resp = Response(StatusOK, "", NilSlice)]
           ELSE handlers' = [handlers EXCEPT ![g].pc = "append", ![g].local = peers]
    /\ UNCHANGED <<chunkerVars, transferVars, registry, heap, mu>>

\* Lines 63-74: peers := t.peers[req.FileHash] and the scan.  A peer that is
\* present makes the handler return: the deferred Unlock runs and net/http
\* answers 200 for a handler that wrote nothing.
AnnounceCheck(g) ==
    /\ g \in DOMAIN handlers
    /\ handlers[g].pc = "check"
    /\ LET req == handlers[g].req
           peers == MapLookup(registry, req.fileHash)
       IN  IF Present(Elems(heap, peers), req.peer)
           THEN /\ handlers' = [handlers EXCEPT ![g].pc = "done",
                                   ![g].resp = Response(StatusOK, "", NilSlice)]
                /\ mu' = Unlock(mu)
           ELSE /\ handlers' = [handlers EXCEPT ![g].pc = "append", ![g].local = peers]
                /\ UNCHANGED mu
    /\ UNCHANGED <<chunkerVars, transferVars, registry, heap>>

\* Mutant of AnnounceAppend: the list is replaced by one that holds only the
\* new peer.
AnnounceAppendReplaces(g) ==
    /\ g \in DOMAIN handlers
    /\ handlers[g].pc = "append"
    /\ LET req == handlers[g].req
           r == GoAppend(heap, NilSlice, req.peer)
       IN  /\ registry' = MapStore(registry, req.fileHash, r.slice)
           /\ heap' = r.heap
    /\ handlers' = [handlers EXCEPT ![g].pc = "done", ![g].local = NilSlice,
                       ![g].resp = Response(StatusOK, "", NilSlice)]
    /\ mu' = Unlock(mu)
    /\ UNCHANGED <<chunkerVars, transferVars>>

\* Lines 75-78: t.peers[req.FileHash] = append(peers, peer),
\* w.WriteHeader(http.StatusOK), and the deferred Unlock.
AnnounceAppend(g) ==
    /\ g \in DOMAIN handlers
    /\ handlers[g].pc = "append"
    /\ LET req == handlers[g].req
           r == GoAppend(heap, handlers[g].local, req.peer)
       IN  /\ registry' = MapStore(registry, req.fileHash, r.slice)
           /\ heap' = r.heap
    /\ handlers' = [handlers EXCEPT ![g].pc = "done", ![g].local = NilSlice,
                       ![g].resp = Response(StatusOK, "", NilSlice)]
    /\ mu' = Unlock(mu)
    /\ UNCHANGED <<chunkerVars, transferVars>>

\* t.mu.RLock(): waits while a writer holds or waits for the lock.
GetPeersRLock(g) ==
    /\ g \in DOMAIN handlers
    /\ handlers[g].pc = "rlock"
    /\ mu.w = 0
    /\ mu' = [mu EXCEPT !.readers = @ \cup {g}]
    /\ handlers' = [handlers EXCEPT ![g].pc = "read"]
    /\ UNCHANGED <<chunkerVars, transferVars, registry, heap>>

\* peers := t.peers[fileHash]; t.mu.RUnlock()
GetPeersRead(g) ==
    /\ g \in DOMAIN handlers
    /\ handlers[g].pc = "read"
    /\ handlers' = [handlers EXCEPT ![g].pc = "encode",
                       ![g].local = MapLookup(registry, handlers[g].req.fileHash)]
    /\ mu' = [mu EXCEPT !.readers = @ \ {g}]
    /\ UNCHANGED <<chunkerVars, transferVars, registry, heap>>

\* json.NewEncoder(w).Encode(PeersResponse{Peers: peers}): the first write
\* sends status 200.
GetPeersEncode(g) ==
    /\ g \in DOMAIN handlers
    /\ handlers[g].pc = "encode"
    /\ handlers' = [handlers EXCEPT ![g].pc = "done", ![g].local = NilSlice,
                       ![g].resp = Response(StatusOK, "", handlers[g].local)]
    /\ UNCHANGED <<chunkerVars, transferVars, registry, heap, mu>>

----------------------------------------------------------------------------
(* SpecTracker                                                             *)

InitTracker ==
    /\ IdleChunker
    /\ IdleTransfer
    /\ NewTracker
    /\ handlers = <<>>

NextTracker ==
    \/ \E req \in AnnounceRequests : ServeAnnounce(req)
    \/ \E req \in GetPeersRequests : ServeGetPeers(req)
    \/ \E g \in 1..MaxRequests : AnnounceLock(g)
    \/ \E g \in 1..MaxRequests : AnnounceLocked(g)
    \/ \E g \in 1..MaxRequests : AnnounceCheck(g)
    \/ \E g \in 1..MaxRequests : AnnounceAppend(g)
    \/ \E g \in 1..MaxRequests : GetPeersRLock(g)
    \/ \E g \in 1..MaxRequests : GetPeersRead(g)
    \/ \E g \in 1..MaxRequests : GetPeersEncode(g)

SpecTracker == InitTracker /\ [][NextTracker]_vars

\* The tracker under fair scheduling: a goroutine that can take its next
\* step, or whose lock is free to take, eventually runs.
FairScheduling ==
    \A g \in 1..MaxRequests :
        /\ WF_vars(AnnounceLock(g))
        /\ WF_vars(AnnounceLocked(g))
        /\ WF_vars(AnnounceCheck(g))
        /\ WF_vars(AnnounceAppend(g))
        /\ WF_vars(GetPeersRLock(g))
        /\ WF_vars(GetPeersRead(g))
        /\ WF_vars(GetPeersEncode(g))

\* The requests that reach the lock: two peers announcing one file, and a
\* lookup of it.
LockingAnnounceRequests ==
    {Request("/announce", "POST", TRUE, "h1", Peer("localhost", 9000)),
     Request("/announce", "POST", TRUE, "h1", Peer("localhost", 9001))}

LockingGetPeersRequests == {Request("/peers", "GET", TRUE, "h1", Peer("", 0))}

NextTrackerFair ==
    \/ \E req \in LockingAnnounceRequests : ServeAnnounce(req)
    \/ \E req \in LockingGetPeersRequests : ServeGetPeers(req)
    \/ \E g \in 1..MaxRequests : AnnounceLock(g)
    \/ \E g \in 1..MaxRequests : AnnounceLocked(g)
    \/ \E g \in 1..MaxRequests : AnnounceCheck(g)
    \/ \E g \in 1..MaxRequests : AnnounceAppend(g)
    \/ \E g \in 1..MaxRequests : GetPeersRLock(g)
    \/ \E g \in 1..MaxRequests : GetPeersRead(g)
    \/ \E g \in 1..MaxRequests : GetPeersEncode(g)

SpecTrackerFair == InitTracker /\ [][NextTrackerFair]_vars /\ FairScheduling

----------------------------------------------------------------------------
(* SpecSnapshot: the tracker after three peers have announced a file.      *)

\* The registry and the heap after the peers of a list have been announced
\* for fileHash, one after the other, to a tracker in state t: a peer that
\* the list of fileHash holds already is not appended again.
RECURSIVE Announced(_, _, _)
Announced(t, fileHash, peers) ==
    IF peers = <<>> THEN t
    ELSE LET listed == MapLookup(t.registry, fileHash) IN
         IF Present(Elems(t.heap, listed), Head(peers))
         THEN Announced(t, fileHash, Tail(peers))
         ELSE LET r == GoAppend(t.heap, listed, Head(peers))
              IN  Announced([registry |-> MapStore(t.registry, fileHash, r.slice),
                             heap |-> r.heap],
                            fileHash, Tail(peers))

SeedPeers == <<Peer("10.0.0.1", 9000), Peer("10.0.0.2", 9000), Peer("10.0.0.3", 9000)>>

\* Three appends leave the list of h1 in an array with room for a fourth
\* peer: the next append for h1 stores in place.
InitSnapshot ==
    /\ IdleChunker
    /\ IdleTransfer
    /\ LET t == Announced([registry |-> <<>>, heap |-> <<>>], "h1", SeedPeers)
       IN  registry = t.registry /\ heap = t.heap
    /\ mu = [w |-> 0, active |-> FALSE, readers |-> {}]
    /\ handlers = <<>>

SpecSnapshot == InitSnapshot /\ [][NextTracker]_vars

----------------------------------------------------------------------------
(* The claims.                                                             *)

\* The peers the registry lists under file hash h.
PeerList(h) == Elems(heap, registry[h])

\* The bytes of chunk i of a file cut at multiples of chunkSize.
ChunkRange(file, chunkSize, size, i) ==
    SubSeq(file, i * chunkSize + 1, i * chunkSize + size)

RECURSIVE SumSizes(_)
SumSizes(chunks) ==
    IF chunks = <<>> THEN 0 ELSE Head(chunks).size + SumSizes(Tail(chunks))

\* The chunk indexes DownloadFile has requested, in the order it sent them.
DFRequests ==
    LET sent == SelectSeq(conns, LAMBDA c : c.by = "df" /\ c.reqSent)
    IN  [k \in DOMAIN sent |-> sent[k].reqIndex]

\* C1: when the peer runs the file server on a file and DownloadFile is
\* given CreateManifest's manifest of that file, with nothing failing,
\* DownloadFile returns nil and the output file is byte-identical to the
\* served file, so its digest is manifest.fileHash.
C1_RoundTripIdentical ==
    (env = "server" /\ dfPc = "returned") =>
        /\ dfErr = NilError
        /\ outFile = srvFile
        /\ SHA256Hex(outFile) = manifest.fileHash

\* C2: for chunkSize > 0 CreateManifest succeeds with ceil(fileSize /
\* chunkSize) chunks whose sizes sum to fileSize; every chunk but the last
\* has size chunkSize, the last a size in (0, chunkSize]; there are no
\* chunks only for an empty file.
C2_ChunkLayout ==
    (cmChunkSize > 0 /\ cmResult.status # "none") =>
        /\ cmResult.status = "ok"
        /\ LET chunks == cmResult.manifest.chunks
               n == Len(chunks)
           IN  /\ n * cmChunkSize >= Len(cmFile)
               /\ (n - 1) * cmChunkSize < Len(cmFile)
               /\ SumSizes(chunks) = Len(cmFile)
               /\ cmResult.manifest.fileSize = Len(cmFile)
               /\ \A k \in 1..(n - 1) : chunks[k].size = cmChunkSize
               /\ n > 0 => chunks[n].size \in 1..cmChunkSize
               /\ (n = 0) <=> (Len(cmFile) = 0)

\* C2's case: a manifest of several chunks whose last chunk is short.
C2_Witness ==
    /\ cmChunkSize > 0
    /\ cmResult.status = "ok"
    /\ Len(cmResult.manifest.chunks) >= 2
    /\ cmResult.manifest.chunks[Len(cmResult.manifest.chunks)].size < cmChunkSize

\* C3: chunks[i].hash of CreateManifest's manifest is the digest of exactly
\* the file bytes [i*chunkSize, i*chunkSize + chunks[i].size), so
\* VerifyChunk(chunks[i], those bytes) is true for every i.
C3_ChunkHashOfExactRange ==
    (cmChunkSize > 0 /\ cmResult.status = "ok") =>
        LET chunks == cmResult.manifest.chunks
            range(i) == ChunkRange(cmFile, cmChunkSize, chunks[i + 1].size, i)
        IN  /\ \A i \in 0..(Len(chunks) - 1) :
                  chunks[i + 1].hash = SHA256Hex(range(i))
            /\ (vcCall.called /\ vcCall.data = range(vcCall.index)) => vcCall.result

\* C4: no peer list of the registry holds two peers with the same address
\* and port, whatever the interleaving of the handlers; an Announce of
\* (h, p) that has returned 200 leaves exactly one entry for p under h,
\* however often it was called.
C4_NoDuplicatePeers ==
    /\ \A h \in DOMAIN registry : \A j, k \in DOMAIN PeerList(h) :
          (/\ PeerList(h)[j].address = PeerList(h)[k].address
           /\ PeerList(h)[j].port = PeerList(h)[k].port) => j = k
    /\ \A g \in DOMAIN handlers :
          (/\ handlers[g].req.endpoint = "/announce"
           /\ handlers[g].pc = "done"
           /\ handlers[g].resp.status = StatusOK) =>
             /\ handlers[g].req.fileHash \in DOMAIN registry
             /\ Cardinality({k \in DOMAIN PeerList(handlers[g].req.fileHash) :
                   PeerList(handlers[g].req.fileHash)[k] = handlers[g].req.peer}) = 1

\* C4's case: the same (h, p) announced by two requests that both returned.
C4_Witness ==
    \E g1, g2 \in DOMAIN handlers :
        /\ g1 # g2
        /\ handlers[g1].req = handlers[g2].req
        /\ handlers[g1].req.endpoint = "/announce"
        /\ handlers[g1].pc = "done" /\ handlers[g2].pc = "done"
        /\ handlers[g1].resp.status = StatusOK
        /\ handlers[g2].resp.status = StatusOK
        /\ Len(PeerList(handlers[g1].req.fileHash)) = 1

\* C5: GetPeers for a non-empty fileHash that was never announced answers
\* 200 with a peers field that is an empty array, not null.
C5_UnknownHashEmptyArray ==
    \A g \in DOMAIN handlers :
        (/\ handlers[g].req.endpoint = "/peers"
         /\ handlers[g].req.method = "GET"
         /\ handlers[g].req.fileHash # ""
         /\ handlers[g].req.fileHash \notin DOMAIN registry
         /\ handlers[g].pc = "done") =>
            /\ handlers[g].resp.status = StatusOK
            /\ ~handlers[g].resp.peersIsNull
            /\ handlers[g].resp.peers = <<>>

\* The chunk count of the manifest the file server works with.
ServedChunks == Len(CreateManifest(srvFile, DefaultChunkSize).manifest.chunks)

\* C6: for a request whose chunkIndex is negative or >= len(chunks),
\* handleConnection writes no byte to the connection before closing it.
C6_OutOfRangeNoPayload ==
    \A c \in DOMAIN conns :
        (/\ env = "server"
         /\ conns[c].reqSent
         /\ (conns[c].reqIndex < 0 \/ conns[c].reqIndex >= ServedChunks)) =>
            conns[c].sent = <<>>

\* C6's case: the server of a file that has chunks has handled and closed a
\* connection that asked for an index past the last chunk.
C6_Witness ==
    /\ env = "server"
    /\ ServedChunks > 0
    /\ \E c \in DOMAIN conns :
          /\ conns[c].reqSent
          /\ conns[c].srv = "closed"
          /\ conns[c].reqIndex >= ServedChunks

\* C7: on both fetch paths a connection closed before chunk.size bytes
\* arrived makes the client return an error: DownloadFile goes on only with
\* chunk.size bytes, and DownloadChunk never returns a nil error with no
\* bytes or with fewer bytes than the chunk has.
C7_ShortReadIsError ==
    /\ dfPc \in {"verify", "write"} => Len(dfData) = manifest.chunks[dfI + 1].size
    /\ (dcPc = "returned" /\ dcErr = NilError) =>
          /\ Len(dcData) > 0
          /\ dcIndex \in 0..(Len(manifest.chunks) - 1) =>
                Len(dcData) >= manifest.chunks[dcIndex + 1].size

\* C8, the state part: when DownloadFile has returned an error at chunk k it
\* has requested chunks 0..k-1 and at most once chunk k, nothing else; it
\* returns nil only when no chunk is left.
C8_RequestsUpToFailure ==
    /\ (dfPc = "returned" /\ dfErr # NilError) =>
          /\ dfI < Len(manifest.chunks) \/ DFRequests = <<>>
          /\ Len(DFRequests) \in {dfI, dfI + 1}
          /\ \A j \in DOMAIN DFRequests : DFRequests[j] = j - 1
    /\ (dfPc = "returned" /\ dfErr = NilError) => dfI = Len(manifest.chunks)

\* C8, the step part: data that fails VerifyChunk is never appended and makes
\* DownloadFile return an error; once DownloadFile has returned, it sends
\* no request and writes nothing.
C8_FailureStep ==
    /\ (dfPc = "verify" /\ ~VerifyChunk(manifest.chunks[dfI + 1], dfData)) =>
          /\ outFile' = outFile
          /\ dfPc' \in {"verify", "returned"}
          /\ dfPc' = "returned" => dfErr' # NilError
    /\ dfPc = "returned" =>
          /\ dfPc' = "returned"
          /\ dfErr' = dfErr
          /\ outFile' = outFile
          /\ DFRequests' = DFRequests

\* C8: the first failure of DownloadFile at a chunk k is terminal: it
\* returns an error, bytes that failed verification are not appended, and
\* no further request is sent (no retry of k, no chunk after k).
C8_FirstFailureTerminal == []C8_RequestsUpToFailure /\ [][C8_FailureStep]_vars

\* C8's case: chunk 0 was appended, chunk 1 failed verification, and the
\* manifest has a chunk 2 that was never requested.
C8_Witness ==
    /\ dfPc = "returned"
    /\ dfErr = Errorf("chunk hash verification failed", <<>>)
    /\ dfI = 1
    /\ Len(manifest.chunks) > 2
    /\ DFRequests = <<0, 1>>
    /\ outFile # <<>>

\* C9: when chunk k fails verification, the error DownloadFile returns
\* names the index k.
C9_ErrorNamesChunkIndex ==
    (dfPc = "returned" /\ dfErr.format = "chunk hash verification failed") =>
        \E a \in DOMAIN dfErr.args : dfErr.args[a] = dfI

\* C10: GetChunk for chunk i of a manifest of an unmodified file returns,
\* without error, the chunks[i].size bytes at offset i * chunkSize.
C10_GetChunkReturnsChunk ==
    (gcCall.called /\ cmChunkSize > 0) =>
        /\ gcCall.result.err = "nil"
        /\ gcCall.result.data =
              ChunkRange(cmFile, cmChunkSize,
                         cmResult.manifest.chunks[gcCall.index + 1].size, gcCall.index)

\* C11 as stated: WriteChunk with digest(data) # chunk.hash returns an error
\* and leaves the file's content and length unchanged; with digest(data) =
\* chunk.hash it appends exactly data at the end of the file.
C11_WriteChunkAppendsAtEnd ==
    wcCall.called =>
        IF SHA256Hex(wcCall.data) # wcCall.chunk.hash
        THEN /\ wcCall.err # "nil"
             /\ wcFile = wcCall.before
        ELSE wcFile = wcCall.before \o wcCall.data

\* C11, amended: on a digest mismatch WriteChunk returns an error and
\* leaves the file's content and length unchanged; on a match it writes
\* data at the handle's write position (its offset, or the end of the file
\* for an O_APPEND handle) and returns the error of file.Write: the n bytes
\* file.Write gets out stand there, all of data when WriteChunk returns
\* nil, fewer than data has (none of data of no byte) when it returns the
\* error; every other byte of the file is unchanged, and the file has
\* grown only as far as they pass its old end.  It is an append of exactly
\* data when the position is the end of the file and WriteChunk returns
\* nil.
C11_WriteChunkAtHandlePosition ==
    wcCall.called =>
        LET data == wcCall.data
            before == wcCall.before
            pos == wcCall.pos
        IN  IF SHA256Hex(data) # wcCall.chunk.hash
            THEN /\ wcCall.err = "chunk hash verification failed"
                 /\ wcFile = before
            ELSE \E n \in 0..Len(data) :
                   /\ \/ wcCall.err = "nil" /\ n = Len(data)
                      \/ wcCall.err = "write" /\ (n < Len(data) \/ data = <<>>)
                   /\ Len(wcFile) = IF n > 0 /\ pos + n > Len(before)
                                    THEN pos + n ELSE Len(before)
                   /\ \A k \in 1..n : wcFile[pos + k] = data[k]
                   /\ \A k \in 1..Len(before) :
                         (k <= pos \/ k > pos + n) => wcFile[k] = before[k]
                   /\ (pos = Len(before) /\ wcCall.err = "nil") =>
                         wcFile = before \o data

\* C11's case: matching data written through a handle that stands before
\* the end of a non-empty file.
C11_Witness ==
    /\ wcCall.called
    /\ SHA256Hex(wcCall.data) = wcCall.chunk.hash
    /\ wcCall.err = "nil"
    /\ wcCall.data # <<>>
    /\ wcCall.pos < Len(wcCall.before)

\* The four rejections of the tracker's endpoints.
WrongMethod(req) ==
    \/ req.endpoint = "/announce" /\ req.method # "POST"
    \/ req.endpoint = "/peers" /\ req.method # "GET"

MalformedBody(req) ==
    req.endpoint = "/announce" /\ req.method = "POST" /\ ~req.bodyOk

MissingFileHash(req) ==
    req.endpoint = "/peers" /\ req.method = "GET" /\ req.fileHash = ""

Rejected(req) == WrongMethod(req) \/ MalformedBody(req) \/ MissingFileHash(req)

\* A step in which a handler of a rejected request starts or moves leaves
\* the registry as it is.
RejectedLeavesRegistry ==
    \A g \in DOMAIN handlers' :
        (/\ Rejected(handlers'[g].req)
         /\ (g \notin DOMAIN handlers \/ handlers'[g] # handlers[g]))
            => registry' = registry /\ heap' = heap

\* C12 as stated: /announce answers 400 to a malformed body and to a method
\* other than POST, and /peers answers 400 to a missing fileHash and to a
\* method other than GET.
C12_Rejected400 ==
    \A g \in DOMAIN handlers :
        Rejected(handlers[g].req) =>
            /\ handlers[g].pc = "done"
            /\ handlers[g].resp.status = StatusBadRequest

\* C12, amended, the state part: a malformed body and a missing fileHash
\* are answered 400, a wrong method is answered 405; the handler has
\* returned without reaching the lock.
C12_RejectedStatus ==
    \A g \in DOMAIN handlers :
        Rejected(handlers[g].req) =>
            /\ handlers[g].pc = "done"
            /\ handlers[g].resp.status =
                  IF WrongMethod(handlers[g].req)
                  THEN StatusMethodNotAllowed ELSE StatusBadRequest
            /\ handlers[g].resp.peers = <<>>

\* C12, amended: /announce answers 400 to a malformed body and 405 to a
\* method other than POST; /peers answers 400 to a missing fileHash and 405
\* to a method other than GET; none of these requests modifies the
\* registry.
C12_RejectedUnmodified == []C12_RejectedStatus /\ [][RejectedLeavesRegistry]_vars

\* C12's case: with a peer registered, a malformed announce and a request
\* with the wrong method have both been answered.
C12_Witness ==
    /\ registry # <<>>
    /\ \E g \in DOMAIN handlers :
          MalformedBody(handlers[g].req) /\ handlers[g].pc = "done"
    /\ \E g \in DOMAIN handlers :
          WrongMethod(handlers[g].req) /\ handlers[g].pc = "done"

\* An announce whose body decodes but names no file hash, no address or no
\* usable port.
ValidPeer(peer) == peer.address # "" /\ peer.port \in 1..65535

MalformedInput(req) ==
    /\ req.endpoint = "/announce" /\ req.method = "POST" /\ req.bodyOk
    /\ (req.fileHash = "" \/ ~ValidPeer(req.peer))

\* C13: an Announce with an empty fileHash, an empty address or an invalid
\* port is rejected with a client error and adds nothing; every key of the
\* registry is a non-empty file hash and every stored peer has a valid
\* address and port.
C13_MalformedInputRejected ==
    /\ \A g \in DOMAIN handlers :
          (MalformedInput(handlers[g].req) /\ handlers[g].pc = "done") =>
              handlers[g].resp.status = StatusBadRequest
    /\ \A h \in DOMAIN registry :
          /\ h # ""
          /\ \A k \in DOMAIN PeerList(h) : ValidPeer(PeerList(h)[k])

\* C14: CreateManifest called with chunkSize <= 0 returns an error value and
\* no manifest: it neither crashes nor returns a manifest.
C14_NonPositiveChunkSizeIsError ==
    (cmChunkSize <= 0 /\ cmResult.status # "none") =>
        /\ cmResult.status = "error"
        /\ cmResult.manifest = NilManifest

\* The connections DownloadFile has sent a request on, in the order it did.
DFConns == SelectSeq(conns, LAMBDA c : c.by = "df" /\ c.reqSent)

\* The bytes DownloadFile reads as the payload of chunk j (0-based) from
\* the connection it asked for it on.
Payload(j) == SubSeq(DFConns[j + 1].sent, 1, manifest.chunks[j + 1].size)

\* Chunk j has been received in full and passes VerifyChunk.
ReceivedVerified(j) ==
    /\ Len(DFConns[j + 1].sent) >= manifest.chunks[j + 1].size
    /\ VerifyChunk(manifest.chunks[j + 1], Payload(j))

RECURSIVE Payloads(_)
\* The payloads of chunks 0..k-1, one after the other.
Payloads(k) == IF k = 0 THEN <<>> ELSE Payloads(k - 1) \o Payload(k - 1)

\* C15: DownloadFile requests the chunks in ascending index order 0, 1, 2,
\* ..., each index at most once, and the request for chunk i+1 is sent only
\* after chunk i has been received in full, verified and appended to the
\* output file.
C15_AscendingOneAtATime ==
    /\ \A j \in DOMAIN DFRequests : DFRequests[j] = j - 1
    /\ Len(DFRequests) <= Len(manifest.chunks)
    /\ \A j \in 0..(Len(DFRequests) - 2) :
          /\ ReceivedVerified(j)
          /\ dfI > j
          /\ Len(outFile) >= Len(Payloads(j + 1))
          /\ SubSeq(outFile, 1, Len(Payloads(j + 1))) = Payloads(j + 1)

\* C15's case: three chunks requested one after the other.
C15_Witness ==
    /\ DFRequests = <<0, 1, 2>>
    /\ dfPc = "read"

\* C16: at every point of a DownloadFile run the client holds at most one
\* open connection: the connection of chunk i is closed before the one of
\* chunk i+1 is opened.
C16_AtMostOneOpenConnection ==
    Cardinality({c \in DOMAIN conns :
                    conns[c].by = "df" /\ conns[c].clientOpen}) <= 1

\* DownloadFile has passed os.Create: it is in the loop, or it has returned
\* from there.
DFCreated ==
    /\ dfPc # "start"
    /\ ~(/\ dfPc = "returned"
         /\ dfErr.format \in {"failed to create output directory: %v",
                              "failed to create output file: %v"})

\* C17 as stated: once DownloadFile has created/truncated the output file,
\* the file is in every state exactly the payloads of chunks 0..k-1 one
\* after the other, each verified against manifest.chunks[j]; success is
\* returned only with k = len(chunks), and after a failure the file holds
\* exactly that verified prefix.
C17_OutputIsVerifiedPrefix ==
    DFCreated =>
        /\ dfI \in 0..Len(manifest.chunks)
        /\ \A j \in 0..(dfI - 1) : ReceivedVerified(j)
        /\ outFile = Payloads(dfI)
        /\ (dfPc = "returned" /\ dfErr = NilError) => dfI = Len(manifest.chunks)

\* C17, amended: as stated, except that after a failed write of chunk k the
\* verified prefix is followed by the bytes of chunk k's verified payload
\* that the write got into the file before it failed: fewer than the chunk
\* has.
C17_OutputIsVerifiedPrefixOrPartial ==
    DFCreated =>
        /\ dfI \in 0..Len(manifest.chunks)
        /\ \A j \in 0..(dfI - 1) : ReceivedVerified(j)
        /\ (dfPc = "returned" /\ dfErr = NilError) => dfI = Len(manifest.chunks)
        /\ IF dfPc = "returned" /\ dfErr.format = "failed to write chunk to file: %v"
           THEN /\ ReceivedVerified(dfI)
                /\ \E n \in 0..(Len(Payload(dfI)) - 1) :
                      outFile = Payloads(dfI) \o SubSeq(Payload(dfI), 1, n)
           ELSE outFile = Payloads(dfI)

\* C17's case: chunk 0 was appended, and the write of chunk 1 failed.
C17_Witness ==
    /\ DFCreated
    /\ dfPc = "returned"
    /\ dfErr.format = "failed to write chunk to file: %v"
    /\ dfI = 1
    /\ outFile = Payloads(1)
    /\ outFile # <<>>

\* The elements of a sequence, as a set.
Range(seq) == {seq[k] : k \in DOMAIN seq}

\* Handler g serves a GetPeers request that gets past the parameter checks.
IsLookup(g) ==
    /\ handlers[g].req.endpoint = "/peers"
    /\ handlers[g].req.method = "GET"
    /\ handlers[g].req.fileHash # ""

\* The peers listed under h, none when h is not a key.
Listed(h) == IF h \in DOMAIN registry THEN PeerList(h) ELSE <<>>

\* A step keeps every list of the registry as the beginning of the list the
\* registry has under the same hash afterwards.
RegistryGrows ==
    \A h \in DOMAIN registry :
        /\ h \in DOMAIN registry'
        /\ Len(PeerList(h)') >= Len(PeerList(h))
        /\ SubSeq(PeerList(h)', 1, Len(PeerList(h))) = PeerList(h)

\* A GetPeers that reads the registry in this step takes every peer listed
\* under its hash, keeps every peer it took while it waits to encode, and
\* answers 200 with all of them.
LookupKeepsPeers ==
    \A g \in DOMAIN handlers :
        IsLookup(g) =>
            /\ (handlers[g].pc = "read" /\ handlers'[g].pc # "read") =>
                  /\ handlers'[g].pc = "encode"
                  /\ Range(Listed(handlers[g].req.fileHash))
                        \subseteq Range(Elems(heap', handlers'[g].local))
            /\ (handlers[g].pc = "encode" /\ handlers'[g].pc = "encode") =>
                  Range(Elems(heap, handlers[g].local))
                     \subseteq Range(Elems(heap', handlers'[g].local))
            /\ (handlers[g].pc = "encode" /\ handlers'[g].pc # "encode") =>
                  /\ handlers'[g].pc = "done"
                  /\ handlers'[g].resp.status = StatusOK
                  /\ Range(Elems(heap, handlers[g].local))
                        \subseteq Range(handlers'[g].resp.peers)

\* C18: the registry only grows: a peer added under a hash stays listed
\* under it, at its place, in every later state, whatever request is served,
\* and a GetPeers for the hash that reads the registry after the peer was
\* added answers with it.
C18_RegistryOnlyGrows == [][RegistryGrows /\ LookupKeepsPeers]_vars

\* C18's case: two peers were announced for a hash one after the other and
\* a GetPeers for it has answered with both.
C18_Witness ==
    \E g \in DOMAIN handlers :
        /\ IsLookup(g)
        /\ handlers[g].pc = "done"
        /\ Len(Listed(handlers[g].req.fileHash)) = 2
        /\ handlers[g].resp.peers = Listed(handlers[g].req.fileHash)

\* What a GetPeers does with the slice it took: the slice shows, from the
\* step that reads it on, the list the registry had under the hash in the
\* state the read lock was held in; no step changes what it shows while the
\* handler waits to encode; and the response holds just that.
SnapshotStep ==
    \A g \in DOMAIN handlers :
        IsLookup(g) =>
            /\ (handlers[g].pc = "read" /\ handlers'[g].pc # "read") =>
                  /\ handlers'[g].pc = "encode"
                  /\ Elems(heap', handlers'[g].local) = Listed(handlers[g].req.fileHash)
            /\ (handlers[g].pc = "encode" /\ handlers'[g].pc = "encode") =>
                  Elems(heap', handlers'[g].local) = Elems(heap, handlers[g].local)
            /\ (handlers[g].pc = "encode" /\ handlers'[g].pc # "encode") =>
                  /\ handlers'[g].pc = "done"
                  /\ handlers'[g].resp.peers = Elems(heap, handlers[g].local)

\* C19: the peer list of a GetPeers response is the registry's list for the
\* hash as it was at the instant the read lock was held; an Announce that
\* runs after the lock was released and before the response is encoded
\* neither adds a peer to it nor alters one.
C19_LookupIsSnapshot == [][SnapshotStep]_vars

\* C19's case: an Announce has appended in place to the very array a
\* GetPeers took its slice of and has yet to encode.
C19_Witness ==
    \E g \in DOMAIN handlers :
        /\ IsLookup(g)
        /\ handlers[g].pc = "encode"
        /\ handlers[g].req.fileHash \in DOMAIN registry
        /\ registry[handlers[g].req.fileHash].arr = handlers[g].local.arr
        /\ registry[handlers[g].req.fileHash].len > handlers[g].local.len
        /\ handlers[g].local.len > 0

\* The handlers that hold the writer side, and those that hold a reader
\* side, of t.mu by where they are in the code.
Writing == {g \in DOMAIN handlers : handlers[g].pc \in {"check", "append"}}

Reading == {g \in DOMAIN handlers : handlers[g].pc = "read"}

\* A writer excludes every other holder; readers are together only with
\* readers; the lock is held by those handlers only that are between their
\* Lock/RLock and their Unlock/RUnlock, and so by none that has returned.
LockDiscipline ==
    /\ Cardinality(Writing) <= 1
    /\ Writing # {} => Reading = {}
    /\ mu.readers = Reading
    /\ mu.active <=> Writing # {}
    /\ mu.active => Writing = {mu.w}
    /\ mu.w # 0 => /\ mu.w \in DOMAIN handlers
                   /\ handlers[mu.w].pc \in {"locking", "check", "append"}
    /\ \A g \in DOMAIN handlers :
          handlers[g].pc = "locking" => mu.w = g /\ ~mu.active

\* Every request that has arrived is answered.
EveryRequestCompletes ==
    \A g \in 1..MaxRequests :
        (g \in DOMAIN handlers) ~> (g \in DOMAIN handlers /\ handlers[g].pc = "done")

\* C20: the registry lock cannot deadlock: a handler that took the lock
\* releases it on every path, the return for a peer already present
\* included, and takes it once; writers exclude every other holder while
\* readers may hold it together; under fair scheduling every Announce and
\* GetPeers request completes.
C20_NoDeadlock == []LockDiscipline /\ EveryRequestCompletes

\* C20's case: an Announce has returned early for a peer that another
\* Announce had added, and a GetPeers has taken the read lock after it.
C20_Witness ==
    /\ mu.readers # {}
    /\ \E g1, g2 \in DOMAIN handlers :
          /\ g1 # g2
          /\ handlers[g1].req.endpoint = "/announce"
          /\ handlers[g1].req = handlers[g2].req
          /\ handlers[g1].pc = "done" /\ handlers[g2].pc = "done"
          /\ handlers[g1].resp.status = StatusOK
          /\ handlers[g2].resp.status = StatusOK

----------------------------------------------------------------------------
(* The file server's connections.                                          *)

\* json.Decode of connection c can return: the request has arrived, or the
\* client has closed without one.
RequestRead(c) ==
    /\ c \in DOMAIN conns
    /\ conns[c].srv = "accepted"
    /\ conns[c].reqSent \/ ~conns[c].clientOpen

\* The server has closed its side of connection c.
ServerClosed(c) == c \in DOMAIN conns /\ conns[c].srv = "closed"

\* The return handleConnection left a closed connection by.
ClosedBy(c) ==
    handleConnection(srvFile, CreateManifest(srvFile, DefaultChunkSize),
                     conns[c].reqSent, conns[c].reqIndex).path

\* The goroutine of connection c is in conn.Write.
InWrite(c) == c \in DOMAIN conns /\ conns[c].srv = "writing"

\* Its conn.Write has returned.
Written(c) == c \in DOMAIN conns /\ conns[c].srv = "written"

\* Bytes reach a connection only from the handler's one conn.Write, which
\* is not entered again once it has returned, and they are never more than
\* the chunk; and a closed connection stays closed.
OneWritePerConnection ==
    \A c \in DOMAIN conns :
        /\ conns'[c].sent # conns[c].sent =>
               /\ conns[c].srv = "writing"
               /\ conns'[c].srv \in {"writing", "written"}
               /\ conns'[c].sent =
                      SubSeq(ChunkData(c), 1, Len(conns'[c].sent))
               /\ Len(conns'[c].sent) <= Len(ChunkData(c))
        /\ conns[c].srv = "written" => conns'[c].srv \in {"written", "closed"}
        /\ conns[c].srv = "closed" => conns'[c].srv = "closed"

\* The handler of connection c is past Decode or can get past it, and has
\* not closed the connection.
InHandling(c) ==
    RequestRead(c) \/ InWrite(c) \/ Written(c)

\* The handler of connection c is in a conn.Write that waits for the client:
\* the buffers are full and the client is there.
WriteWaits(c) == InWrite(c) /\ ~WriteReturns(c)

\* C21 as stated: every accepted connection whose request can be read (it
\* has arrived, or the client has gone and Decode fails) is eventually
\* closed by the server.
C21_AcceptedConnectionClosed ==
    \A c \in 1..MaxFairConns : RequestRead(c) ~> ServerClosed(c)

\* C21 amended: such a connection is eventually closed by the server, on
\* every return of handleConnection, unless its handler is in a conn.Write
\* that waits for the client; and the server writes to a connection at most
\* once.
C21_ClosedOnceWriteReturns ==
    /\ \A c \in 1..MaxFairConns :
          InHandling(c) ~> (ServerClosed(c) \/ WriteWaits(c))
    /\ [][OneWritePerConnection]_vars

\* C21's case: the server has closed a connection after its conn.Write had
\* put a chunk on it that the socket buffers do not hold.
C21_Witness ==
    \E c \in DOMAIN conns :
        /\ ServerClosed(c) /\ ClosedBy(c) = "sent"
        /\ conns[c].sent = ChunkData(c)
        /\ Len(ChunkData(c)) = DefaultChunkSize
        /\ DefaultChunkSize > SocketBuffer

\* Connection c is established and waits for the loop's ln.Accept().
Pending(c) == c \in DOMAIN conns /\ conns[c].srv = "dialed"

\* Connection c is with its goroutine, whose Decode waits for a request
\* that has not arrived from a client that is still there.
AwaitingRequest(c) ==
    /\ c \in DOMAIN conns
    /\ conns[c].srv = "accepted"
    /\ ~conns[c].reqSent
    /\ conns[c].clientOpen

\* Whatever the other connections are at, the loop can take a pending
\* connection and a goroutine whose request can be read can go on.
NeverHeldUp ==
    \A c \in DOMAIN conns :
        /\ Pending(c) => ENABLED Accept(c)
        /\ RequestRead(c) => ENABLED HandleConnection(c)
        /\ Written(c) => ENABLED ConnClose(c)

\* C22: the accept loop is running in every state, after a failed Accept
\* too; and whatever the other connections are at (waiting for a request,
\* in a write that waits, failed, closed), a pending connection can be
\* accepted and a connection whose request can be read, or whose write has
\* returned, can be taken further by its handler.
C22_ConnectionsIndependent ==
    listening /\ NeverHeldUp

\* C22's case: an Accept has failed, an earlier connection still waits for
\* its request, and a later one has been accepted, has failed in its
\* handling and is closed.
C22_Witness ==
    /\ acceptFailed
    /\ \E a, b \in DOMAIN conns :
          /\ a < b
          /\ AwaitingRequest(a)
          /\ ServerClosed(b) /\ ClosedBy(b) # "sent"
====
